---------------------------- MODULE Spec2Model ----------------------------
(***************************************************************************)
(* A model of the PDF splitter (src/parse_pdf.py): outline resolution,     *)
(* TOC segmentation, the paragraph fallback, the heading heuristic and the *)
(* key-sentence ranking.                                                   *)
(*                                                                         *)
(* Python strings are TLA+ strings; TLC evaluates Len, \o and SubSeq on    *)
(* them, so Ch(s, i) is the i-th character (1-based) of s.  Operations on  *)
(* the characters of a string are written over index sets, not by          *)
(* recursion on the string.                                                *)
(***************************************************************************)
EXTENDS Integers, Sequences, FiniteSets, TLC

VARIABLES
    reader_outline,  \* self.reader.outline: [raises, items]
    pages_text,      \* the text page.extract_text() gives for each page of self.reader.pages
    total_pages,     \* self.total_pages
    toc,             \* the list extract_toc / _parse_outline returned
    sections,        \* the list split_by_toc / split_by_paragraphs returned
    page_reads,      \* per TOC entry, the indices used in pages_text[...] (observation)
    fallback,        \* whether split_by_toc called split_by_paragraphs (observation)
    raised,          \* the exception that left the call, "none" if it returned
    text,            \* the string argument of _is_likely_heading / _extract_key_sentences
    max_sentences,   \* the max_sentences argument of _extract_key_sentences
    is_heading,      \* what _is_likely_heading returned
    top_sentences,   \* what _extract_key_sentences returned
    pc,              \* "start" before the call, "done" after it
    scored_sentences,  \* the (score, sentence) pairs _extract_key_sentences built (observation)
    summary_parts,   \* the lines create_document_summary appended (observation)
    summary,         \* the string create_document_summary returned
    document_context,       \* ClaudePDFAnalyzer: None ([none, value]) or the text loaded
    conversation_history,   \* the list of [role, content] messages
    total_input_tokens,
    total_output_tokens,
    cache_creation_tokens,
    cache_read_tokens,
    system_prompt,
    current_mode,
    called,          \* the last operation of the analyzer that was called: [op, arg]
    api_calls,       \* how often client.messages.create was called (observation)
    successful_asks, \* how many calls of ask returned since the history was last emptied
    context_loaded   \* whether a call of load_context has returned (observation)

vars == <<reader_outline, pages_text, total_pages, toc, sections, page_reads, fallback,
          raised,
          text, max_sentences, is_heading, top_sentences, pc,
          scored_sentences, summary_parts, summary,
          document_context, conversation_history, total_input_tokens,
          total_output_tokens, cache_creation_tokens, cache_read_tokens,
          system_prompt, current_mode,
          called, api_calls, successful_asks, context_loaded>>

\* The variables of the splitter's summary and of the analyzer.
summary_vars == <<summary_parts, summary>>

analyzer_vars == <<document_context, conversation_history, total_input_tokens,
                   total_output_tokens, cache_creation_tokens, cache_read_tokens,
                   system_prompt, current_mode,
                   called, api_calls, successful_asks, context_loaded>>

(***************************************************************************)
(* Bounds of the model.                                                    *)
(***************************************************************************)
MaxPages == 3
MaxToc == 3
MaxNodes == 4
MaxDepth == 2
MaxTextLen == 3
MaxParas == 3
MaxSents == 2
MaxLimit == 3
MaxSections == 3
MaxCalls == 2
MaxMessages == 3

(***************************************************************************)
(* Python built-ins.                                                       *)
(***************************************************************************)
Ch(s, i) == SubSeq(s, i, i)

Whitespace == {" ", "\n", "\t"}

Upper == {"A", "B", "C", "D", "E", "F", "G", "H", "I", "J", "K", "L", "M",
          "N", "O", "P", "Q", "R", "S", "T", "U", "V", "W", "X", "Y", "Z"}

Digits == {"0", "1", "2", "3", "4", "5", "6", "7", "8", "9"}

isspace(c) == c \in Whitespace

isupper(c) == c \in Upper

isdigit(c) == c \in Digits

\* str.strip(): s without its leading and trailing whitespace.
strip(s) ==
    IF \A i \in 1..Len(s) : isspace(Ch(s, i)) THEN ""
    ELSE LET lo == CHOOSE i \in 1..Len(s) :
                       /\ ~isspace(Ch(s, i))
                       /\ \A j \in 1..(i - 1) : isspace(Ch(s, j))
             hi == CHOOSE i \in 1..Len(s) :
                       /\ ~isspace(Ch(s, i))
                       /\ \A j \in (i + 1)..Len(s) : isspace(Ch(s, j))
         IN SubSeq(s, lo, hi)

\* s * n
RECURSIVE Repeat(_, _)
Repeat(s, n) ==
    IF n <= 0 THEN ""
    ELSE IF n = 1 THEN s
    ELSE LET half == Repeat(s, n \div 2)
         IN half \o half \o (IF n % 2 = 1 THEN s ELSE "")

\* sep.join(parts)
RECURSIVE join(_, _)
join(sep, parts) ==
    IF parts = <<>> THEN ""
    ELSE IF Len(parts) = 1 THEN parts[1]
    ELSE parts[1] \o sep \o join(sep, Tail(parts))

\* The elements of a list.
Range(seq) == {seq[k] : k \in 1..Len(seq)}

\* list(range(a, b))
range(a, b) == [k \in 1..(b - a) |-> a + k - 1]

\* seq[i] with Python's indexing: 0-based, a negative index counts from the end.
IndexInRange(seq, i) == -Len(seq) <= i /\ i < Len(seq)

getitem(seq, i) == IF i >= 0 THEN seq[i + 1] ELSE seq[Len(seq) + i + 1]

(***************************************************************************)
(* The outline.  An item is a leaf (an outline entry, whose destination    *)
(* resolves to a page or makes get_destination_page_number raise) or a     *)
(* nested list of items.                                                   *)
(***************************************************************************)
Leaf(t, r, p) == [kind |-> "leaf", title |-> t, resolves |-> r, page |-> p]

Group(items) == [kind |-> "list", items |-> items]

RECURSIVE _parse_outline(_, _)

\* A variant in which a leaf that fails to resolve ends the loop over its list.
_parse_outline_failure_aborts(outlines, level) ==
    IF outlines = <<>> THEN <<>>
    ELSE LET item == Head(outlines)
         IN IF item.kind = "list"
            THEN _parse_outline(item.items, level + 1)
                     \o _parse_outline(Tail(outlines), level)
            ELSE IF item.resolves
                 THEN <<[title |-> item.title, page |-> item.page, level |-> level]>>
                          \o _parse_outline(Tail(outlines), level)
                 ELSE <<>>

\* _parse_outline(outlines, level)
_parse_outline(outlines, level) ==
    IF outlines = <<>> THEN <<>>
    ELSE LET item == Head(outlines)
             rest == _parse_outline(Tail(outlines), level)
         IN IF item.kind = "list"
            THEN _parse_outline(item.items, level + 1) \o rest
            ELSE IF item.resolves
                 THEN <<[title |-> item.title, page |-> item.page, level |-> level]>> \o rest
                 ELSE rest

\* extract_toc(): [] when reading the outline raises or the outline is empty.
extract_toc_first_failure_aborts(outline) ==
    IF outline.raises \/ outline.items = <<>> THEN <<>>
    ELSE IF \E k \in 1..Len(outline.items) :
                outline.items[k].kind = "leaf" /\ ~outline.items[k].resolves
         THEN <<>>
         ELSE _parse_outline(outline.items, 0)

extract_toc(outline) ==
    IF outline.raises THEN <<>>
    ELSE IF outline.items # <<>> THEN _parse_outline(outline.items, 0)
    ELSE <<>>

(***************************************************************************)
(* re.split.  MatchEnd(pat, s, i) is the index of the last character of    *)
(* the match of the pattern that starts at index i of s, 0 when the        *)
(* pattern does not match there.  Both patterns consume at least two       *)
(* characters, and re.split scans for the leftmost match, cuts, and goes   *)
(* on after the match.                                                     *)
(***************************************************************************)
\* The last index of the longest run of characters of class C that starts at i
\* (i - 1 when the character at i is not in C).
RunEnd(s, i, C) ==
    IF i > Len(s) \/ Ch(s, i) \notin C THEN i - 1
    ELSE CHOOSE j \in i..Len(s) :
             /\ (j = Len(s) \/ Ch(s, j + 1) \notin C)
             /\ \A k \in i..j : Ch(s, k) \in C

Terminators == {".", "!", "?"}

\* r'\n\s*\n+': a newline, whitespace taken greedily and given back up to the
\* last newline of the whitespace run.
ParagraphBreakEnd(s, i) ==
    IF Ch(s, i) # "\n" THEN 0
    ELSE LET e == RunEnd(s, i, Whitespace)
             later == {j \in (i + 1)..e : Ch(s, j) = "\n"}
         IN IF later = {} THEN 0
            ELSE CHOOSE j \in later : \A k \in later : k <= j

\* r'[.!?]+\s+': a run of terminators followed by a run of whitespace.
SentenceBreakEnd(s, i) ==
    IF Ch(s, i) \notin Terminators THEN 0
    ELSE LET t == RunEnd(s, i, Terminators)
         IN IF t < Len(s) /\ isspace(Ch(s, t + 1))
            THEN RunEnd(s, t + 1, Whitespace)
            ELSE 0

MatchEnd(pat, s, i) ==
    IF pat = "paragraph" THEN ParagraphBreakEnd(s, i) ELSE SentenceBreakEnd(s, i)

RECURSIVE re_split_from(_, _, _)
re_split_from(pat, s, from) ==
    IF \A i \in from..Len(s) : MatchEnd(pat, s, i) = 0
    THEN <<SubSeq(s, from, Len(s))>>
    ELSE LET i == CHOOSE j \in from..Len(s) :
                      /\ MatchEnd(pat, s, j) # 0
                      /\ \A k \in from..(j - 1) : MatchEnd(pat, s, k) = 0
         IN <<SubSeq(s, from, i - 1)>> \o re_split_from(pat, s, MatchEnd(pat, s, i) + 1)

re_split(pat, s) == re_split_from(pat, s, 1)

(***************************************************************************)
(* _is_likely_heading.  re.match anchors each pattern at the start of      *)
(* text.strip().  In every pattern each repetition is over a character     *)
(* class disjoint from what must follow it, so the greedy run is the only  *)
(* way to match and RunEnd decides it.                                     *)
(***************************************************************************)
MaxHeadingLen == 200

MaxHeadingWords == 10

MinCapsTail == 3

Roman == {"I", "V", "X", "L", "C", "D", "M"}

\* s.startswith(prefix)
startswith(s, prefix) == Len(s) >= Len(prefix) /\ SubSeq(s, 1, Len(prefix)) = prefix

\* r'^\d+\.?\s+[A-Z]'
MatchesNumbered(s) ==
    LET d == RunEnd(s, 1, Digits)
        p == IF d < Len(s) /\ Ch(s, d + 1) = "." THEN d + 1 ELSE d
        w == RunEnd(s, p + 1, Whitespace)
    IN d >= 1 /\ w > p /\ w < Len(s) /\ isupper(Ch(s, w + 1))

\* r'^[A-Z][A-Z\s]{3,}$'
MatchesAllCaps(s) ==
    /\ Len(s) >= 1 + MinCapsTail
    /\ isupper(Ch(s, 1))
    /\ \A i \in 2..Len(s) : isupper(Ch(s, i)) \/ isspace(Ch(s, i))

\* r'^Chapter\s+\d+' and r'^Section\s+\d+'
MatchesWordNumber(s, word) ==
    LET w == RunEnd(s, Len(word) + 1, Whitespace)
    IN startswith(s, word) /\ w > Len(word) /\ w < Len(s) /\ isdigit(Ch(s, w + 1))

\* r'^[IVXLCDM]+\.\s+[A-Z]'
MatchesRoman(s) ==
    LET r == RunEnd(s, 1, Roman)
        w == RunEnd(s, r + 2, Whitespace)
    IN /\ r >= 1 /\ r < Len(s) /\ Ch(s, r + 1) = "."
       /\ w > r + 1 /\ w < Len(s) /\ isupper(Ch(s, w + 1))

MatchesHeadingPattern(s) ==
    \/ MatchesNumbered(s)
    \/ MatchesAllCaps(s)
    \/ MatchesWordNumber(s, "Chapter")
    \/ MatchesWordNumber(s, "Section")
    \/ MatchesRoman(s)

\* len(text.split()): the number of maximal runs of non-whitespace characters.
WordCount(s) ==
    Cardinality({i \in 1..Len(s) :
                    ~isspace(Ch(s, i)) /\ (i = 1 \/ isspace(Ch(s, i - 1)))})

UpperCount(s) == Cardinality({i \in 1..Len(s) : isupper(Ch(s, i))})

\* len(text) > 200
TooLongNever(s) == FALSE

TooLong(s) == Len(s) > MaxHeadingLen

\* max(len(text), 1)
RatioDenominatorUnguarded(s) == Len(s)

RatioDenominator(s) == IF Len(s) > 1 THEN Len(s) ELSE 1

\* uppercase_ratio > 0.6, for uppercase_ratio = upper / denominator
MostlyUpperInclusive(upper, denominator) == 5 * upper >= 3 * denominator

MostlyUpper(upper, denominator) == 5 * upper > 3 * denominator

\* The outcome of _is_likely_heading(text): the exception it raises ("none" when
\* it returns) and the value it returns.  upper / denominator > 0.6 is compared
\* exactly, as 5 * upper > 3 * denominator: a quotient of integers up to 200
\* that is not 3/5 differs from it by far more than a rounding error, and 3/5
\* itself rounds to the float 0.6.
_is_likely_heading(s) ==
    IF TooLong(s) THEN [raises |-> "none", value |-> FALSE]
    ELSE IF MatchesHeadingPattern(strip(s)) THEN [raises |-> "none", value |-> TRUE]
    ELSE IF WordCount(s) <= MaxHeadingWords
         THEN IF RatioDenominator(s) = 0
              THEN [raises |-> "ZeroDivisionError", value |-> FALSE]
              ELSE [raises |-> "none",
                    value |-> MostlyUpper(UpperCount(s), RatioDenominator(s))]
         ELSE [raises |-> "none", value |-> FALSE]

(***************************************************************************)
(* split_by_paragraphs.  The loop over the paragraphs is a recursion on    *)
(* the list, carrying the loop's variables; current_title is [none, value] *)
(* for Python's None or a string.                                          *)
(***************************************************************************)
MaxTitleLen == 100

NoTitle == [none |-> TRUE, value |-> ""]

\* current_title or f"Section {section_num}"
TitleOr(current_title, section_num) ==
    IF current_title.none \/ current_title.value = ""
    THEN "Section " \o ToString(section_num)
    ELSE current_title.value

\* A variant that keeps only the first paragraph of the body.
ParagraphSectionFirstOnly(current_title, section_num, current_section) ==
    [title |-> TitleOr(current_title, section_num),
     level |-> 0,
     content |-> strip(Head(current_section))]

ParagraphSection(current_title, section_num, current_section) ==
    [title |-> TitleOr(current_title, section_num),
     level |-> 0,
     content |-> strip(join("\n\n", current_section))]

\* para[:100]
HeadingTitleWhole(para) == para

HeadingTitle(para) == SubSeq(para, 1, IF Len(para) < MaxTitleLen THEN Len(para) ELSE MaxTitleLen)

\* "Add last section": what is returned once the loop has ended.
LastFlushMissing(secs, section_num, current_section, current_title) == secs

LastFlush(secs, section_num, current_section, current_title) ==
    IF current_section # <<>>
    THEN Append(secs, ParagraphSection(current_title, section_num, current_section))
    ELSE secs

RECURSIVE ParagraphLoop(_, _, _, _, _)
ParagraphLoop(paragraphs, secs, section_num, current_section, current_title) ==
    IF paragraphs = <<>>
    THEN LastFlush(secs, section_num, current_section, current_title)
    ELSE LET para == strip(Head(paragraphs))
             rest == Tail(paragraphs)
         IN IF para = ""
            THEN ParagraphLoop(rest, secs, section_num, current_section, current_title)
            ELSE IF _is_likely_heading(para).value
            THEN IF current_section # <<>>
                 THEN ParagraphLoop(rest,
                          Append(secs, ParagraphSection(current_title, section_num,
                                                        current_section)),
                          section_num + 1, <<>>,
                          [none |-> FALSE, value |-> HeadingTitle(para)])
                 ELSE ParagraphLoop(rest, secs, section_num, <<>>,
                          [none |-> FALSE, value |-> HeadingTitle(para)])
            ELSE ParagraphLoop(rest, secs, section_num, Append(current_section, para),
                               current_title)

split_by_paragraphs(texts) ==
    ParagraphLoop(re_split("paragraph", join("\n\n", texts)), <<>>, 1, <<>>, NoTitle)

(***************************************************************************)
(* split_by_toc, the TOC path: one section per entry of the resolved       *)
(* outline.                                                                *)
(***************************************************************************)
\* toc[i + 1]['page'] if i + 1 < len(toc) else self.total_pages   (i is 1-based here)
EndPageAlwaysLast(entries, i, n_pages) == n_pages

EndPageOneBased(entries, i, n_pages) ==
    IF i < Len(entries) THEN entries[i + 1].page + 1 ELSE n_pages

EndPage(entries, i, n_pages) ==
    IF i < Len(entries) THEN entries[i + 1].page ELSE n_pages

\* start_page + 1
HumanStartPageZeroBased(start_page) == start_page

HumanStartPage(start_page) == start_page + 1

\* if page_num < len(pages_text)
PageGuardOff(page_num, texts) == TRUE

PageGuard(page_num, texts) == page_num < Len(texts)

\* The page numbers for which pages_text[page_num] is evaluated for entry i.
SectionReads(entries, i, texts, n_pages) ==
    SelectSeq(range(entries[i].page, EndPage(entries, i, n_pages)),
              LAMBDA page_num : PageGuard(page_num, texts))

SectionRaises(entries, i, texts, n_pages) ==
    LET reads == SectionReads(entries, i, texts, n_pages)
    IN \E k \in 1..Len(reads) : ~IndexInRange(texts, reads[k])

TocSection(entries, i, texts, n_pages) ==
    LET reads == SectionReads(entries, i, texts, n_pages)
        content == [k \in 1..Len(reads) |-> getitem(texts, reads[k])]
    IN [title |-> entries[i].title,
        level |-> entries[i].level,
        start_page |-> HumanStartPage(entries[i].page),
        end_page |-> EndPage(entries, i, n_pages),
        content |-> strip(join("\n\n", content))]

(***************************************************************************)
(* _extract_key_sentences.                                                 *)
(***************************************************************************)
MinSentenceLen == 20

MaxScored == 50

ShortLen == 50

LongLen == 200

UpperLetters == "ABCDEFGHIJKLMNOPQRSTUVWXYZ"

LowerLetters == "abcdefghijklmnopqrstuvwxyz"

\* c.lower() of one character
lower(c) ==
    IF isupper(c)
    THEN Ch(LowerLetters, CHOOSE k \in 1..Len(UpperLetters) : Ch(UpperLetters, k) = c)
    ELSE c

\* s.lower(), as the list of its characters
str_lower(s) == [i \in 1..Len(s) |-> lower(Ch(s, i))]

\* word in s.lower(), given the characters of s.lower()
InLower(word, lowered) ==
    \E i \in 1..(Len(lowered) - Len(word) + 1) :
        \A k \in 1..Len(word) : lowered[i + k - 1] = Ch(word, k)

important_words ==
    <<"result", "conclusion", "found", "significant", "important",
      "demonstrate", "show", "indicate", "suggest", "recommend",
      "key", "main", "primary", "critical", "essential">>

\* A variant that counts a keyword once for each place it occurs at.
SentenceScorePerOccurrence(sentence) ==
      (IF \E i \in 1..Len(sentence) : isdigit(Ch(sentence, i)) THEN 2 ELSE 0)
    + (IF \E i \in 1..Len(sentence) : Ch(sentence, i) \in {"\"", "'"} THEN 1 ELSE 0)
    + (LET lowered == str_lower(sentence)
       IN Cardinality({p \in (1..Len(important_words)) \X (1..Len(sentence)) :
                          LET word == important_words[p[1]]
                          IN /\ p[2] + Len(word) - 1 <= Len(sentence)
                             /\ \A k \in 1..Len(word) :
                                    lowered[p[2] + k - 1] = Ch(word, k)}))
    + (IF ShortLen < Len(sentence) /\ Len(sentence) < LongLen THEN 1 ELSE 0)

SentenceScore(sentence) ==
      (IF \E i \in 1..Len(sentence) : isdigit(Ch(sentence, i)) THEN 2 ELSE 0)
    + (IF \E i \in 1..Len(sentence) : Ch(sentence, i) \in {"\"", "'"} THEN 1 ELSE 0)
    + (LET lowered == str_lower(sentence)
       IN Cardinality({k \in 1..Len(important_words) :
                          InLower(important_words[k], lowered)}))
    + (IF ShortLen < Len(sentence) /\ Len(sentence) < LongLen THEN 1 ELSE 0)

\* [s.strip() for s in sentences if len(s.strip()) > 20]
Candidates(s) ==
    LET pieces == re_split("sentence", s)
        stripped == [k \in 1..Len(pieces) |-> strip(pieces[k])]
    IN SelectSeq(stripped, LAMBDA x : Len(x) > MinSentenceLen)

\* list.sort(reverse=True, key=score): the sort is stable, so an element's place
\* is one more than the number of elements with a higher score, or with the
\* same score and an earlier place.
SortByScore(scored) ==
    LET Before(j, i) ==
            \/ scored[j].score > scored[i].score
            \/ scored[j].score = scored[i].score /\ j < i
        Place(i) == 1 + Cardinality({j \in 1..Len(scored) : Before(j, i)})
    IN [r \in 1..Len(scored) |-> scored[CHOOSE i \in 1..Len(scored) : Place(i) = r]]

\* seq[:stop] with Python's slicing: a negative stop counts from the end.
SliceTo(seq, stop) ==
    LET n == IF stop >= 0 THEN stop ELSE Len(seq) + stop
    IN SubSeq(seq, 1, IF n > Len(seq) THEN Len(seq) ELSE n)

\* scored_sentences once the loop over sentences[:50] has ended.
ScoredSentences(s) ==
    LET first == SliceTo(Candidates(s), MaxScored)
    IN [k \in 1..Len(first) |-> [score |-> SentenceScore(first[k]), sentence |-> first[k]]]

_extract_key_sentences(s, limit) ==
    LET sentences == Candidates(s)
        scored == ScoredSentences(s)
        top == SelectSeq(SliceTo(SortByScore(scored), limit), LAMBDA x : x.score > 0)
    IN IF sentences = <<>> THEN <<>>
       ELSE [k \in 1..Len(top) |-> top[k].sentence]

(***************************************************************************)
(* create_document_summary.  The summary is a list of parts (most of them  *)
(* one line), joined by "\n".  A section is a record; 'start_page' in      *)
(* section is whether the record has that field.                           *)
(***************************************************************************)
MaxPreviewLen == 300

SummaryMaxSentences == 3

\* s.split(sep) for a literal, non-empty separator.
RECURSIVE str_split_from(_, _, _)
str_split_from(s, sep, from) ==
    LET At(i) == SubSeq(s, i, i + Len(sep) - 1) = sep
        hits == {i \in from..(Len(s) - Len(sep) + 1) : At(i)}
    IN IF hits = {} THEN <<SubSeq(s, from, Len(s))>>
       ELSE LET i == CHOOSE j \in hits : \A k \in hits : j <= k
            IN <<SubSeq(s, from, i - 1)>> \o str_split_from(s, sep, i + Len(sep))

str_split(s, sep) == str_split_from(s, sep, 1)

\* 'start_page' in section
HasPages(section) == "start_page" \in DOMAIN section

\* section.get('level', 0)
LevelOf(section) == IF "level" \in DOMAIN section THEN section.level ELSE 0

\* f" [p.{section['start_page']}-{section['end_page']}]"
PageRange(section) ==
    ToString(section.start_page) \o "-" \o ToString(section.end_page)

\* enumerate(sections, 1): the number given to the k-th section (k counts from 1).
PositionFromZero(k) == k - 1

Position(k) == k

\* The indentation of a TOC line.
Indent(section) == Repeat("  ", LevelOf(section))

\* f"{indent}{i}. {section['title']}{pages}"
TocLine(section, k) ==
    Indent(section) \o ToString(Position(k)) \o ". " \o section.title
        \o (IF HasPages(section) THEN " [p." \o PageRange(section) \o "]" ELSE "")

\* f"### Section {i}: {section['title']}"
SectionHeading(section, k) ==
    "### Section " \o ToString(Position(k)) \o ": " \o section.title

\* The "**Location:**" part, for a section with page fields.
LocationPart(section) ==
    IF HasPages(section) THEN <<"**Location:** Pages " \o PageRange(section)>> ELSE <<>>

\* The "**Preview:**" part: the first 300 characters of the first non-blank
\* paragraph of the content, "..." added when it is longer.
PreviewPart(content) ==
    LET pieces == str_split(content, "\n\n")
        paragraphs == SelectSeq([k \in 1..Len(pieces) |-> strip(pieces[k])],
                                LAMBDA x : x # "")
    IN IF paragraphs = <<>> THEN <<>>
       ELSE LET first == paragraphs[1]
            IN IF Len(first) > MaxPreviewLen
               THEN <<"**Preview:** " \o SubSeq(first, 1, MaxPreviewLen) \o "...">>
               ELSE <<"**Preview:** " \o first>>

\* The "**Key Points:**" parts.
KeyPointsPart(content) ==
    LET key_sentences == _extract_key_sentences(content, SummaryMaxSentences)
    IN IF key_sentences = <<>> THEN <<>>
       ELSE <<"**Key Points:**">>
                \o [k \in 1..Len(key_sentences) |-> "- " \o key_sentences[k]]

\* What the second loop appends for the k-th section.
SectionBlock(section, k) ==
    <<SectionHeading(section, k)>>
        \o LocationPart(section)
        \o <<"**Length:** " \o ToString(WordCount(section.content)) \o " words, "
                 \o ToString(Len(section.content)) \o " characters">>
        \o PreviewPart(section.content)
        \o KeyPointsPart(section.content)
        \o <<"">>

HeaderPart(secs, n_pages) ==
    <<"# DOCUMENT STRUCTURE SUMMARY",
      "Total Sections: " \o ToString(Len(secs)),
      "Total Pages: " \o ToString(n_pages) \o "\n">>

TocHeading == "## TABLE OF CONTENTS"

SummariesHeading == "\n## SECTION SUMMARIES\n"

\* The last line has a non-ASCII arrow in the source; it is written "->" here.
HowToUsePart ==
    <<"\n## HOW TO USE THIS DOCUMENT",
      "This summary provides the structure and overview of the full document.",
      "Each section has been extracted to a separate file in the output directory.",
      "To analyze specific sections in detail, refer to the individual section files.",
      "Section numbers correspond to the filenames (e.g., Section 1 -> 01_*.txt)">>

RECURSIVE SectionBlocks(_, _)
SectionBlocks(secs, k) ==
    IF k > Len(secs) THEN <<>>
    ELSE SectionBlock(secs[k], k) \o SectionBlocks(secs, k + 1)

\* summary_parts when create_document_summary returns.
SummaryParts(secs, n_pages) ==
    HeaderPart(secs, n_pages)
        \o <<TocHeading>>
        \o [k \in 1..Len(secs) |-> TocLine(secs[k], k)]
        \o <<SummariesHeading>>
        \o SectionBlocks(secs, 1)
        \o HowToUsePart

create_document_summary(secs, n_pages) == join("\n", SummaryParts(secs, n_pages))

(***************************************************************************)
(* Input documents.                                                        *)
(***************************************************************************)
\* No analyzer has been constructed.
NoAnalyzer ==
    /\ document_context = [none |-> TRUE, value |-> ""]
    /\ conversation_history = <<>>
    /\ total_input_tokens = 0
    /\ total_output_tokens = 0
    /\ cache_creation_tokens = 0
    /\ cache_read_tokens = 0
    /\ system_prompt = ""
    /\ current_mode = ""
    /\ called = [op |-> "none", arg |-> ""]
    /\ api_calls = 0
    /\ successful_asks = 0
    /\ context_loaded = FALSE

Idle ==
    /\ text = ""
    /\ max_sentences = 0
    /\ is_heading = [raises |-> "none", value |-> FALSE]
    /\ top_sentences = <<>>
    /\ scored_sentences = <<>>

Fresh ==
    /\ toc = <<>>
    /\ sections = <<>>
    /\ page_reads = <<>>
    /\ fallback = FALSE
    /\ raised = "none"
    /\ pc = "start"
    /\ summary_parts = <<>>
    /\ summary = ""
    /\ NoAnalyzer

\* What get_destination_page_number does for a leaf: a page, or an exception.
Unresolvable == [resolves |-> FALSE, page |-> 0]

Destinations(page_set) == {[resolves |-> TRUE, page |-> p] : p \in page_set} \cup {Unresolvable}

\* Outlines without nesting; the k-th entry is titled "Tk".
FlatOutlines(n, page_set) ==
    {[k \in 1..n |-> Leaf("T" \o ToString(k), d[k].resolves, d[k].page)] :
        d \in [1..n -> Destinations(page_set)]}

\* Outlines of exactly `size` nodes (leaves and lists), nested at most `depth` deep.
NestedLeaves ==
    {Leaf(t, d.resolves, d.page) : t \in {"A", "B"}, d \in Destinations({0, 1})}

RECURSIVE ListsOfSize(_, _)
ItemsOfSize(size, depth) ==
    (IF size = 1 THEN NestedLeaves ELSE {})
        \cup (IF depth > 0 THEN {Group(l) : l \in ListsOfSize(size - 1, depth - 1)} ELSE {})

ListsOfSize(size, depth) ==
    IF size = 0 THEN {<<>>}
    ELSE UNION {{<<it>> \o rest : it \in ItemsOfSize(j, depth),
                                   rest \in ListsOfSize(size - j, depth)} : j \in 1..size}

NestedOutlines(max_nodes, max_depth) ==
    UNION {ListsOfSize(k, max_depth) : k \in 0..max_nodes}

PageAlphabet == {" a", "B\n"}

ExamplePages == [p \in 1..12 |-> "page " \o ToString(p)]

ExampleOutline == <<Leaf("One", TRUE, 0), Leaf("Two", TRUE, 5), Leaf("Three", TRUE, 9)>>

TocOutlines ==
    LET flat == UNION {FlatOutlines(n, (-1)..(MaxPages + 1)) : n \in 0..MaxToc}
        one == UNION {FlatOutlines(n, {1}) : n \in 0..1}
    IN {[raises |-> FALSE, items |-> o] : o \in flat}
           \cup {[raises |-> FALSE, items |-> <<Group(o)>>] : o \in one}
           \cup {[raises |-> TRUE, items |-> <<>>]}

(***************************************************************************)
(* The segmentation of a document: split_by_toc().                         *)
(***************************************************************************)
InitToc ==
    /\ \/ /\ reader_outline \in TocOutlines
          /\ total_pages \in 0..MaxPages
          /\ pages_text \in [1..total_pages -> PageAlphabet]
       \/ /\ reader_outline = [raises |-> FALSE, items |-> ExampleOutline]
          /\ total_pages = Len(ExamplePages)
          /\ pages_text = ExamplePages
    /\ Fresh
    /\ Idle

SplitByToc ==
    /\ pc = "start"
    /\ LET entries == extract_toc(reader_outline)
           Raising == {i \in 1..Len(entries) :
                          SectionRaises(entries, i, pages_text, total_pages)}
           done == IF Raising = {} THEN Len(entries)
                   ELSE CHOOSE i \in Raising : \A j \in Raising : i <= j
       IN /\ toc' = entries
          /\ IF entries = <<>>
             THEN /\ sections' = split_by_paragraphs(pages_text)
                  /\ fallback' = TRUE
                  /\ page_reads' = <<>>
                  /\ raised' = "none"
             ELSE /\ fallback' = FALSE
                  /\ page_reads' = [i \in 1..done |->
                                        SectionReads(entries, i, pages_text, total_pages)]
                  /\ IF Raising = {}
                     THEN /\ sections' = [i \in 1..Len(entries) |->
                                             TocSection(entries, i, pages_text, total_pages)]
                          /\ raised' = "none"
                     ELSE /\ sections' = <<>>
                          /\ raised' = "IndexError"
    /\ pc' = "done"
    /\ UNCHANGED <<reader_outline, pages_text, total_pages,
                   text, max_sentences, is_heading, top_sentences, scored_sentences>>
    /\ UNCHANGED <<summary_vars, analyzer_vars>>

NextToc == SplitByToc

SpecToc == InitToc /\ [][NextToc]_vars

(***************************************************************************)
(* The pipeline of main(): split_by_toc(), then create_document_summary()  *)
(* on the sections it returned (through save_sections).                    *)
(***************************************************************************)
CreateDocumentSummary ==
    /\ pc = "done"
    /\ raised = "none"
    /\ summary' = create_document_summary(sections, total_pages)
    /\ summary_parts' = SummaryParts(sections, total_pages)
    /\ pc' = "summarized"
    /\ UNCHANGED <<reader_outline, pages_text, total_pages, toc, sections, page_reads,
                   fallback, raised, text, max_sentences, is_heading, top_sentences,
                   scored_sentences>>
    /\ UNCHANGED analyzer_vars

NextPipeline == SplitByToc \/ CreateDocumentSummary

SpecPipeline == InitToc /\ [][NextPipeline]_vars

(***************************************************************************)
(* The summary alone: create_document_summary(sections) on section lists   *)
(* of both kinds (with page fields, as the TOC path builds them, and       *)
(* without, as the paragraph fallback does).                               *)
(***************************************************************************)
LongParagraph == Repeat("lorem ipsum ", 26)

SectionAtoms ==
    {[title |-> "Intro", level |-> 0, start_page |-> 1, end_page |-> 5,
      content |-> "The main result was 42. It is \"fine\" as a sentence here"],
     [title |-> "Deep", level |-> 2, start_page |-> 6, end_page |-> 5, content |-> ""],
     [title |-> "Section 1", level |-> 0, content |-> "first para\n\nsecond para"],
     [title |-> "METHODS", level |-> 0, content |-> LongParagraph \o "\n\n\nshort"],
     [title |-> "Intro", level |-> 1, content |-> "we found nothing at all here. ok"]}

SummaryInputs == UNION {[1..n -> SectionAtoms] : n \in 0..MaxSections}

InitSummary ==
    /\ sections \in SummaryInputs
    /\ total_pages \in {0, 12}
    /\ reader_outline = [raises |-> FALSE, items |-> <<>>]
    /\ pages_text = <<>>
    /\ toc = <<>>
    /\ page_reads = <<>>
    /\ fallback = FALSE
    /\ raised = "none"
    /\ pc = "done"
    /\ summary_parts = <<>>
    /\ summary = ""
    /\ NoAnalyzer
    /\ Idle

NextSummary == CreateDocumentSummary

SpecSummary == InitSummary /\ [][NextSummary]_vars

(***************************************************************************)
(* Outline resolution alone: _parse_outline(outlines) on nested outlines.  *)
(***************************************************************************)
InitOutline ==
    /\ reader_outline \in {[raises |-> FALSE, items |-> o] : o \in NestedOutlines(MaxNodes, MaxDepth)}
    /\ total_pages = 0
    /\ pages_text = <<>>
    /\ Fresh
    /\ Idle

ParseOutline ==
    /\ pc = "start"
    /\ toc' = _parse_outline(reader_outline.items, 0)
    /\ pc' = "done"
    /\ UNCHANGED <<reader_outline, pages_text, total_pages, sections, page_reads,
                   fallback, raised, text, max_sentences, is_heading, top_sentences,
                   scored_sentences>>
    /\ UNCHANGED <<summary_vars, analyzer_vars>>

NextOutline == ParseOutline

SpecOutline == InitOutline /\ [][NextOutline]_vars

(***************************************************************************)
(* The leaves of an outline by their position: a path is the sequence of   *)
(* indices that leads from the root list to a leaf.  Depth-first order is  *)
(* the lexicographic order of the paths.                                   *)
(***************************************************************************)
RECURSIVE PathsOf(_)
PathsOf(items) ==
    UNION {IF items[k].kind = "leaf" THEN {<<k>>}
           ELSE {<<k>> \o q : q \in PathsOf(items[k].items)} : k \in 1..Len(items)}

RECURSIVE ItemAt(_, _)
ItemAt(items, path) ==
    IF Len(path) = 1 THEN items[path[1]]
    ELSE ItemAt(items[path[1]].items, Tail(path))

LexLess(a, b) ==
    \E k \in 1..Len(a) :
        /\ k <= Len(b)
        /\ a[k] < b[k]
        /\ \A j \in 1..(k - 1) : a[j] = b[j]

ResolvedPaths(items) == {path \in PathsOf(items) : ItemAt(items, path).resolves}

NoResolvableLeaf(outline) == outline.raises \/ ResolvedPaths(outline.items) = {}

Returned == pc = "done" /\ raised = "none"

TocPath == Returned /\ toc # <<>>

StrictlyIncreasing(entries) ==
    \A i \in 1..(Len(entries) - 1) : entries[i].page < entries[i + 1].page

\* C1: split_by_toc returns one section per outline entry, in entry order; the
\* end_page of section i is the 0-based page of entry i+1 (the start_page of
\* section i+1 minus 1) and the end_page of the last section is total_pages.
\* It returns for every outline whose pages are non-negative.
C1_SectionPerEntry ==
    pc = "done" /\ toc # <<>> =>
        /\ (\A i \in 1..Len(toc) : toc[i].page >= 0) => raised = "none"
        /\ raised = "none" =>
               /\ Len(sections) = Len(toc)
               /\ \A i \in 1..Len(toc) :
                      /\ sections[i].title = toc[i].title
                      /\ sections[i].level = toc[i].level
                      /\ sections[i].start_page = toc[i].page + 1
               /\ \A i \in 1..(Len(toc) - 1) :
                      /\ sections[i].end_page = toc[i + 1].page
                      /\ sections[i].end_page = sections[i + 1].start_page - 1
               /\ sections[Len(toc)].end_page = total_pages

C1_Witness ==
    /\ TocPath
    /\ Len(sections) = 3
    /\ sections[1].end_page = 2
    /\ sections[2].end_page = 1
    /\ total_pages = 3

\* C2: when the outline pages are strictly increasing and start at 0, every page
\* index in [0, total_pages) lies in the range [start_page - 1, end_page) of
\* exactly one section; entries at pages 0, 5, 9 of a 12-page document give the
\* (start_page, end_page) pairs (1,5), (6,9), (10,12).
C2_PagesCoveredOnce ==
    pc = "done" /\ toc # <<>> /\ StrictlyIncreasing(toc) /\ toc[1].page = 0 =>
        /\ raised = "none"
        /\ \A p \in 0..(total_pages - 1) :
               Cardinality({i \in 1..Len(sections) :
                               sections[i].start_page - 1 <= p /\ p < sections[i].end_page}) = 1
        /\ ([i \in 1..Len(toc) |-> toc[i].page] = <<0, 5, 9>> /\ total_pages = 12 =>
               [i \in 1..Len(sections) |-> <<sections[i].start_page, sections[i].end_page>>]
                   = <<(<<1, 5>>), (<<6, 9>>), (<<10, 12>>)>>)

C2_Witness ==
    /\ TocPath
    /\ [i \in 1..Len(toc) |-> toc[i].page] = <<0, 5, 9>>
    /\ total_pages = 12
    /\ Len(sections) = 3

\* C3 as stated: every section split_by_toc produces has end_page >= start_page,
\* whatever the outline (here even on documents with at least one page).
C3_EndNotBeforeStart ==
    TocPath /\ total_pages >= 1 =>
        \A i \in 1..Len(sections) : sections[i].end_page >= sections[i].start_page

\* C3 amended: section i has end_page >= start_page exactly when the page of
\* entry i is strictly below the page of entry i+1 (total_pages for the last
\* entry); so it holds for every section of an outline whose pages are strictly
\* increasing and below total_pages, and fails for a duplicate, out-of-order or
\* beyond-the-last-page entry.
C3_EndNotBeforeStartIffIncreasing ==
    TocPath =>
        /\ \A i \in 1..Len(sections) :
               sections[i].end_page >= sections[i].start_page
                   <=> toc[i].page < (IF i < Len(toc) THEN toc[i + 1].page ELSE total_pages)
        /\ (StrictlyIncreasing(toc) /\ toc[Len(toc)].page < total_pages =>
               \A i \in 1..Len(sections) : sections[i].end_page >= sections[i].start_page)

C3_Witness ==
    /\ TocPath
    /\ Len(sections) = 3
    /\ toc[1].page = toc[2].page
    /\ sections[1].end_page < sections[1].start_page
    /\ sections[3].end_page >= sections[3].start_page

\* C4: for an entry with a non-negative page, split_by_toc evaluates
\* pages_text[p] only for 0 <= p < total_pages and raises nothing; the content
\* of its section is the trimmed blank-line join of the page texts at
\* entries[i].page <= p < end_page, p < total_pages, in increasing order, and is
\* empty when end_page <= entries[i].page or entries[i].page >= total_pages.
ExpectedContent(i) ==
    LET lo == toc[i].page
        hi == IF sections[i].end_page < total_pages THEN sections[i].end_page
              ELSE total_pages
    IN strip(join("\n\n", [k \in 1..(hi - lo) |-> pages_text[lo + k]]))

C4_ContentWithinPages ==
    pc = "done" /\ toc # <<>> =>
        /\ raised # "none" => toc[Len(page_reads)].page < 0
        /\ \A i \in 1..Len(page_reads) :
               toc[i].page >= 0 =>
                   \A k \in 1..Len(page_reads[i]) :
                       0 <= page_reads[i][k] /\ page_reads[i][k] < total_pages
        /\ raised = "none" =>
               \A i \in 1..Len(sections) :
                   toc[i].page >= 0 =>
                       /\ sections[i].content = ExpectedContent(i)
                       /\ (sections[i].end_page <= toc[i].page \/ toc[i].page >= total_pages
                              => sections[i].content = "")

C4_Witness ==
    /\ TocPath
    /\ total_pages = 2
    /\ Len(sections) = 2
    /\ toc[1].page = 0
    /\ toc[2].page = 4
    /\ sections[1].content = "a\n\nB"
    /\ sections[2].content = ""

\* C5: split_by_toc runs the paragraph fallback, and returns its result, exactly
\* when the outline resolves to no entry: reading it raises, it is empty, or no
\* leaf of it resolves to a page.
C5_FallbackIffNoEntry ==
    pc = "done" =>
        /\ fallback <=> NoResolvableLeaf(reader_outline)
        /\ fallback <=> toc = <<>>
        /\ fallback => raised = "none" /\ sections = split_by_paragraphs(pages_text)
        /\ ~fallback /\ raised = "none" =>
               /\ Len(sections) = Len(toc)
               /\ \A i \in 1..Len(sections) : "start_page" \in DOMAIN sections[i]

C5_Witness ==
    /\ pc = "done"
    /\ fallback
    /\ ~reader_outline.raises
    /\ Len(reader_outline.items) = 2
    /\ sections # <<>>
    /\ \A i \in 1..Len(sections) : "start_page" \notin DOMAIN sections[i]

\* C6: _parse_outline returns exactly the leaves whose page resolves, in
\* depth-first order with siblings in their order, each with its title, its
\* page and its nesting depth as level (0 for the root list); a leaf that fails
\* to resolve is left out and nothing else changes, so the output is as long as
\* the number of resolvable leaves, which is at most the number of leaves.
C6_ResolvedLeavesInOrder ==
    pc = "done" =>
        LET items == reader_outline.items
            good == ResolvedPaths(items)
        IN /\ Len(toc) = Cardinality(good)
           /\ Len(toc) <= Cardinality(PathsOf(items))
           /\ \A path \in good :
                  toc[1 + Cardinality({q \in good : LexLess(q, path)})]
                      = [title |-> ItemAt(items, path).title,
                         page |-> ItemAt(items, path).page,
                         level |-> Len(path) - 1]

C6_Witness ==
    /\ pc = "done"
    /\ Len(toc) = 1
    /\ toc[1].level = 2
    /\ Cardinality(PathsOf(reader_outline.items)) = 2
    /\ ~ItemAt(reader_outline.items, <<1, 1, 1>>).resolves

(***************************************************************************)
(* The heading heuristic alone: _is_likely_heading(text).                  *)
(***************************************************************************)
RECURSIVE StringsOver(_, _)
StringsOver(alphabet, n) ==
    IF n = 0 THEN {""}
    ELSE LET shorter == StringsOver(alphabet, n - 1)
         IN shorter \cup {s \o c : s \in shorter, c \in alphabet}

HeadingExamples ==
    {"INTRODUCTION", "1. Overview", "This is a normal sentence describing results.",
     "Chapter 1", "Section 2", "IV. Results", "12 Methods", " 1. Overview\n",
     "ABC de", "AbC dE", "a B c D e F g H i J k", "A B C D E F G H I J K",
     "ABCde", "aB CD EF GH IJ KL MN OP QR ST", "aB CD EF GH IJ KL MN OP QR ST UV"}

\* base, filled up to `total` characters.
PadTo(base, fill, total) == base \o Repeat(fill, total - Len(base))

HeadingInputs ==
    LET bases == StringsOver({"A", "b", "1", ".", " "}, MaxTextLen) \cup HeadingExamples
    IN bases \cup {PadTo(b, f, n) : b \in bases, f \in {"A", "b"},
                                     n \in (MaxHeadingLen - 1)..(MaxHeadingLen + 1)}

InitHeading ==
    /\ text \in HeadingInputs
    /\ max_sentences = 0
    /\ is_heading = [raises |-> "none", value |-> FALSE]
    /\ top_sentences = <<>>
    /\ scored_sentences = <<>>
    /\ reader_outline = [raises |-> FALSE, items |-> <<>>]
    /\ total_pages = 0
    /\ pages_text = <<>>
    /\ Fresh

IsLikelyHeading ==
    /\ pc = "start"
    /\ is_heading' = _is_likely_heading(text)
    /\ pc' = "done"
    /\ UNCHANGED <<reader_outline, pages_text, total_pages, toc, sections, page_reads,
                   fallback, raised, text, max_sentences, top_sentences, scored_sentences>>
    /\ UNCHANGED <<summary_vars, analyzer_vars>>

NextHeading == IsLikelyHeading

SpecHeading == InitHeading /\ [][NextHeading]_vars

\* C7: _is_likely_heading returns a boolean for every string and never raises;
\* it returns false for the empty string and for every string of more than 200
\* characters, even one that matches a heading pattern; it returns true for
\* "INTRODUCTION" and "1. Overview" and false for "This is a normal sentence
\* describing results.".
C7_HeadingTotal ==
    pc = "done" =>
        /\ is_heading.raises = "none"
        /\ is_heading.value \in BOOLEAN
        /\ text = "" => ~is_heading.value
        /\ Len(text) > 200 => ~is_heading.value
        /\ text \in {"INTRODUCTION", "1. Overview"} => is_heading.value
        /\ text = "This is a normal sentence describing results." => ~is_heading.value

C7_Witness ==
    /\ pc = "done"
    /\ Len(text) = 201
    /\ MatchesNumbered(text)
    /\ ~is_heading.value

(***************************************************************************)
(* The paragraph fallback alone: split_by_paragraphs().                    *)
(***************************************************************************)
LongHeading == "Section 3 " \o Repeat("y", 110)

ParagraphAtoms ==
    {"INTRODUCTION", "METHODS", LongHeading,
     "This is body text about the topic.", "We used method X.", " "}

\* A document of the given paragraphs: on one page with a clean or a ragged blank
\* line between them, on one page with single line breaks, or a page each.
Layouts(atoms) ==
    {<<join("\n\n", atoms)>>, <<join(" \n\t\n\n ", atoms)>>, <<join("\n", atoms)>>, atoms}

ParagraphDocs ==
    UNION {Layouts(atoms) : atoms \in UNION {[1..n -> ParagraphAtoms] : n \in 0..MaxParas}}

EndToEndText ==
    "INTRODUCTION\n\nThis is body text about the topic.\n\nMETHODS\n\nWe used method X."

InitParagraphs ==
    /\ pages_text \in ParagraphDocs \cup {<<EndToEndText>>}
    /\ total_pages = Len(pages_text)
    /\ reader_outline = [raises |-> FALSE, items |-> <<>>]
    /\ Fresh
    /\ Idle

SplitByParagraphs ==
    /\ pc = "start"
    /\ sections' = split_by_paragraphs(pages_text)
    /\ pc' = "done"
    /\ UNCHANGED <<reader_outline, pages_text, total_pages, toc, page_reads, fallback,
                   raised, text, max_sentences, is_heading, top_sentences,
                   scored_sentences>>
    /\ UNCHANGED <<summary_vars, analyzer_vars>>

NextParagraphs == SplitByParagraphs

SpecParagraphs == InitParagraphs /\ [][NextParagraphs]_vars

\* The non-empty paragraphs of a document, trimmed, in document order.
ParagraphsOf(texts) ==
    LET parts == re_split("paragraph", join("\n\n", texts))
    IN SelectSeq([k \in 1..Len(parts) |-> strip(parts[k])], LAMBDA x : x # "")

\* For each paragraph, whether it is classified as a heading.
HeadingFlags(paras) == [i \in 1..Len(paras) |-> _is_likely_heading(paras[i]).value]

NoHeadings == \A para \in Range(ParagraphsOf(pages_text)) : ~_is_likely_heading(para).value

OneSynthesizedSection(paras) ==
    sections = <<[title |-> "Section 1", level |-> 0, content |-> join("\n\n", paras)]>>

\* C8 as stated: on any input in which no paragraph is classified as a heading,
\* split_by_paragraphs produces exactly one section, titled "Section 1", with
\* level 0, no page fields, and all non-empty paragraphs joined by blank lines
\* as content (here even on documents with at least one page).
C8_OneSectionWithoutHeadings ==
    pc = "done" /\ total_pages >= 1 /\ NoHeadings =>
        OneSynthesizedSection(ParagraphsOf(pages_text))

\* C8 amended: on an input with at least one non-empty paragraph and no paragraph
\* classified as a heading, split_by_paragraphs produces exactly that one
\* section; on an input with no non-empty paragraph it produces no section.
C8_OneSectionIfAnyParagraph ==
    pc = "done" /\ NoHeadings =>
        LET paras == ParagraphsOf(pages_text)
        IN IF paras = <<>> THEN sections = <<>> ELSE OneSynthesizedSection(paras)

C8_Witness ==
    /\ pc = "done"
    /\ NoHeadings
    /\ Len(ParagraphsOf(pages_text)) = 3
    /\ Len(sections) = 1
    /\ total_pages = 3

\* C9: a heading paragraph followed by at least one non-heading paragraph before
\* the next heading or the end yields exactly one section, titled with the
\* heading's first 100 characters, whose content is those paragraphs joined by a
\* blank line; the sections are in document order; a heading with no body
\* yields none; the number of sections is the number of such headings, plus one
\* when non-heading paragraphs precede the first heading.  The text
\* INTRODUCTION / body / METHODS / body gives the sections "INTRODUCTION" and
\* "METHODS" with those bodies.
\* The places where a run of non-heading paragraphs starts.
BodyStarts(flags) == {i \in 1..Len(flags) : ~flags[i] /\ (i = 1 \/ flags[i - 1])}

\* The place where the run of non-heading paragraphs that starts at i ends.
BodyEnd(flags, i) ==
    CHOOSE j \in i..Len(flags) :
        /\ \A k \in i..j : ~flags[k]
        /\ (j = Len(flags) \/ flags[j + 1])

C9_SectionPerHeadingWithBody ==
    pc = "done" =>
        LET paras == ParagraphsOf(pages_text)
            flags == HeadingFlags(paras)
            starts == BodyStarts(flags)
        IN /\ Len(sections) = Cardinality(starts)
           /\ Cardinality(starts) =
                  Cardinality({h \in 1..(Len(paras) - 1) : flags[h] /\ ~flags[h + 1]})
                      + (IF paras # <<>> /\ ~flags[1] THEN 1 ELSE 0)
           /\ \A i \in starts :
                  i > 1 =>
                      LET sec == sections[Cardinality({b \in starts : b <= i})]
                          heading == paras[i - 1]
                      IN /\ startswith(heading, sec.title)
                         /\ Len(sec.title) = (IF Len(heading) < 100 THEN Len(heading) ELSE 100)
                         /\ sec.content = join("\n\n", SubSeq(paras, i, BodyEnd(flags, i)))
           /\ (pages_text = <<EndToEndText>> =>
                  sections = <<[title |-> "INTRODUCTION", level |-> 0,
                                content |-> "This is body text about the topic."],
                               [title |-> "METHODS", level |-> 0,
                                content |-> "We used method X."]>>)

C9_Witness ==
    /\ pc = "done"
    /\ pages_text = <<EndToEndText>>
    /\ Len(sections) = 2
    /\ sections[2].title = "METHODS"

(***************************************************************************)
(* The sentence ranking alone: _extract_key_sentences(text, max_sentences). *)
(***************************************************************************)
SentenceAtoms ==
    {"nothing special here at all",
     "too short",
     "there were 42 apples in it",
     "the 'key' RESULT was found today",
     "we said \"hello\" to everyone there",
     "another plain sentence without it",
     "this sentence is long enough to get the length bonus okay"}

\* More candidates than are scored: 50 plain sentences, then one that would
\* score highest.
ManySentences ==
    Repeat("this plain sentence says nothing. ", MaxScored)
        \o "the key result 99 was found in the end."

\* Sentences at the limits of the scoring rules: a keyword that occurs three
\* times; lengths 50, 51, 199 and 200; trimmed lengths 20 and 21.
ScoreExamples ==
    <<"the key to the key is the key",
      Repeat("z", ShortLen), Repeat("z", ShortLen + 1),
      Repeat("z", LongLen - 1), Repeat("z", LongLen),
      Repeat("q", MinSentenceLen - 1) \o "7", Repeat("q", MinSentenceLen) \o "7">>

\* How the sentences of a text are separated, and how the text ends.
Punctuation == {<<". ", "">>, <<"?!\n", ".">>}

RankInputs ==
    LET lists == UNION {[1..n -> SentenceAtoms] : n \in 0..MaxSents}
    IN ({ManySentences, " " \o join(".\n ", ScoreExamples) \o ". "} \cup Range(ScoreExamples))
           \cup {join(p[1], l) \o p[2] : p \in Punctuation, l \in lists}

InitRank ==
    /\ text \in RankInputs
    /\ max_sentences \in (-1)..MaxLimit
    /\ is_heading = [raises |-> "none", value |-> FALSE]
    /\ top_sentences = <<>>
    /\ scored_sentences = <<>>
    /\ reader_outline = [raises |-> FALSE, items |-> <<>>]
    /\ total_pages = 0
    /\ pages_text = <<>>
    /\ Fresh

ExtractKeySentences ==
    /\ pc = "start"
    /\ top_sentences' = _extract_key_sentences(text, max_sentences)
    /\ scored_sentences' = ScoredSentences(text)
    /\ pc' = "done"
    /\ UNCHANGED <<reader_outline, pages_text, total_pages, toc, sections, page_reads,
                   fallback, raised, text, max_sentences, is_heading>>
    /\ UNCHANGED <<summary_vars, analyzer_vars>>

NextRank == ExtractKeySentences

SpecRank == InitRank /\ [][NextRank]_vars

\* The returned sentences with a given score, in the order returned.
WithScore(seq, v) == SelectSeq(seq, LAMBDA x : SentenceScore(x) = v)

IsPrefix(a, b) == Len(a) <= Len(b) /\ SubSeq(b, 1, Len(a)) = a

\* The returned sentences all score above 0, come in non-increasing score
\* order, and those of equal score keep their document order (they are the
\* first of that score among the scored candidates).
RankedAndStable ==
    LET scored == SliceTo(Candidates(text), MaxScored)
    IN /\ \A k \in 1..Len(top_sentences) : SentenceScore(top_sentences[k]) > 0
       /\ \A k \in 1..(Len(top_sentences) - 1) :
              SentenceScore(top_sentences[k]) >= SentenceScore(top_sentences[k + 1])
       /\ \A k \in 1..Len(top_sentences) :
              LET v == SentenceScore(top_sentences[k])
              IN IsPrefix(WithScore(top_sentences, v), WithScore(scored, v))

\* C10: for every content string and every max_sentences,
\* _extract_key_sentences returns at most max_sentences sentences, each with
\* score > 0, in non-increasing score order with equal scores in document
\* order; the empty string gives the empty list.  (A negative max_sentences is
\* read in the claim's favour: no sentence may be returned for it.)
C10_AtMostMaxRanked ==
    pc = "done" =>
        /\ Len(top_sentences) <= (IF max_sentences < 0 THEN 0 ELSE max_sentences)
        /\ RankedAndStable
        /\ text = "" => top_sentences = <<>>

\* The same for every max_sentences >= 0, where it holds.
C10_AtMostMaxRankedNonNegative ==
    pc = "done" /\ max_sentences >= 0 =>
        /\ Len(top_sentences) <= max_sentences
        /\ RankedAndStable
        /\ text = "" => top_sentences = <<>>

C10_Witness ==
    /\ pc = "done"
    /\ max_sentences = 2
    /\ Len(top_sentences) = 2
    /\ SentenceScore(top_sentences[1]) = SentenceScore(top_sentences[2])
    /\ top_sentences[1] # top_sentences[2]

(***************************************************************************)
(* Caller-contract violations.                                             *)
(***************************************************************************)
\* C11: running the pipeline (split_by_toc, then create_document_summary) on a
\* document with zero pages raises an error to the caller instead of returning
\* a section list.
C11_ZeroPagesRaise ==
    pc \in {"done", "summarized"} /\ total_pages = 0 => raised # "none"

\* C11, its second half: _extract_key_sentences called with a negative
\* max_sentences raises an error instead of returning a result.
C11_NegativeMaxRaises ==
    pc = "done" /\ max_sentences < 0 => raised # "none"

\* The pipeline has run to its end on a document of zero pages.
C11_Witness ==
    /\ pc = "summarized"
    /\ total_pages = 0
    /\ raised = "none"
    /\ sections = <<>>
    /\ summary_parts[2] = "Total Sections: 0"

(***************************************************************************)
(* The rendered summary.                                                   *)
(***************************************************************************)
\* The places of a list of parts that hold a given part.
PlacesOf(parts, part) == {j \in 1..Len(parts) : parts[j] = part}

\* The number of places at which `piece` occurs in the string s.
Occurrences(s, piece) ==
    Cardinality({i \in 1..(Len(s) - Len(piece) + 1) : SubSeq(s, i, i + Len(piece) - 1) = piece})

\* The TOC line and the block heading the k-th section must have.
ExpectedTocLine(k) ==
    LET sec == sections[k]
    IN Repeat(" ", 2 * sec.level) \o ToString(k) \o ". " \o sec.title
           \o (IF "start_page" \in DOMAIN sec
               THEN " [p." \o ToString(sec.start_page) \o "-" \o ToString(sec.end_page) \o "]"
               ELSE "")

ExpectedHeading(k) == "### Section " \o ToString(k) \o ": " \o sections[k].title

ExpectedLocation(k) ==
    "**Location:** Pages " \o ToString(sections[k].start_page) \o "-"
        \o ToString(sections[k].end_page)

\* C12: create_document_summary lists every input section exactly once in the
\* TABLE OF CONTENTS block and exactly once as a "### Section N: <title>"
\* block, both in input order with N the 1-based position; the TOC line is
\* indented two spaces per level; the page-range suffix of the TOC line and the
\* **Location:** line are there exactly for the sections that have start_page;
\* header, TOC, section blocks and HOW TO USE block come in that order.  The
\* returned string is the parts joined by line breaks.
C12_SummaryListsSections ==
    pc = "summarized" =>
        LET n == Len(sections)
            parts == summary_parts
            last == Len(parts)
            HeadingAt(k) == CHOOSE j \in PlacesOf(parts, ExpectedHeading(k)) : TRUE
            BlockEnd(k) == IF k < n THEN HeadingAt(k + 1) - 1 ELSE last - 5
        IN /\ summary = join("\n", parts)
           /\ parts[1] = "# DOCUMENT STRUCTURE SUMMARY"
           /\ parts[2] = "Total Sections: " \o ToString(n)
           /\ parts[4] = "## TABLE OF CONTENTS"
           /\ \A k \in 1..n :
                  /\ parts[4 + k] = ExpectedTocLine(k)
                  /\ PlacesOf(parts, ExpectedTocLine(k)) \cap (5..(4 + n)) = {4 + k}
           /\ parts[5 + n] = "\n## SECTION SUMMARIES\n"
           /\ \A k \in 1..n :
                  /\ Cardinality(PlacesOf(parts, ExpectedHeading(k))) = 1
                  /\ HeadingAt(k) > 5 + n
                  /\ HeadingAt(k) <= last - 5
                  /\ k < n => HeadingAt(k) < HeadingAt(k + 1)
           /\ \A k \in 1..n :
                  LET located == {j \in (HeadingAt(k) + 1)..BlockEnd(k) :
                                     startswith(parts[j], "**Location:**")}
                  IN IF "start_page" \in DOMAIN sections[k]
                     THEN /\ located = {HeadingAt(k) + 1}
                          /\ parts[HeadingAt(k) + 1] = ExpectedLocation(k)
                     ELSE located = {}
           /\ Cardinality({j \in 1..last : startswith(parts[j], "### Section ")}) = n
           /\ parts[last - 4] = "\n## HOW TO USE THIS DOCUMENT"
           /\ Occurrences(summary, "\n### Section ") = n
           /\ Occurrences(summary, "\n## ") = 3

C12_Witness ==
    /\ pc = "summarized"
    /\ Len(sections) = 3
    /\ sections[1].title = sections[3].title
    /\ "start_page" \in DOMAIN sections[1]
    /\ "start_page" \notin DOMAIN sections[3]
    /\ sections[2].level = 2
    /\ summary_parts[6] = "    2. Deep [p.6-5]"
    /\ summary_parts[7] = "  3. Intro"

(***************************************************************************)
(* The paragraph fallback keeps the body text.                             *)
(***************************************************************************)
RECURSIVE Flatten(_)
Flatten(lists) == IF lists = <<>> THEN <<>> ELSE Head(lists) \o Flatten(Tail(lists))

\* Whether `title` is the first 100 characters of the paragraph `para`.
TitleOf(title, para) ==
    /\ startswith(para, title)
    /\ Len(title) = (IF Len(para) < 100 THEN Len(para) ELSE 100)

\* C13: split_by_paragraphs never drops body text: the non-empty non-heading
\* paragraphs of the document, in order, are the paragraphs of the produced
\* sections' contents, in section order; paragraphs before the first heading
\* are kept under the synthesized title "Section 1", and only a first section
\* that precedes every heading has a synthesized title: every other title is
\* the first 100 characters of a heading paragraph.
C13_BodyTextKept ==
    pc = "done" =>
        LET paras == ParagraphsOf(pages_text)
            flags == HeadingFlags(paras)
            body == SelectSeq(paras, LAMBDA x : ~_is_likely_heading(x).value)
            kept == Flatten([k \in 1..Len(sections) |->
                                str_split(sections[k].content, "\n\n")])
            FromHeading(k) ==
                \E h \in 1..Len(paras) : flags[h] /\ TitleOf(sections[k].title, paras[h])
        IN /\ kept = body
           /\ (paras # <<>> /\ ~flags[1] =>
                  /\ sections # <<>>
                  /\ sections[1].title = "Section 1"
                  /\ LET lead == CHOOSE j \in 1..Len(paras) :
                                     /\ \A i \in 1..j : ~flags[i]
                                     /\ (j = Len(paras) \/ flags[j + 1])
                     IN sections[1].content = join("\n\n", SubSeq(paras, 1, lead)))
           /\ (paras # <<>> /\ flags[1] /\ sections # <<>> => FromHeading(1))
           /\ \A k \in 2..Len(sections) : FromHeading(k)

C13_Witness ==
    /\ pc = "done"
    /\ Len(ParagraphsOf(pages_text)) = 3
    /\ HeadingFlags(ParagraphsOf(pages_text)) = <<FALSE, TRUE, FALSE>>
    /\ Len(sections) = 2
    /\ sections[1].title = "Section 1"
    /\ sections[2].title = "METHODS"

(***************************************************************************)
(* The score of a sentence.                                                *)
(***************************************************************************)
Keywords ==
    {"result", "conclusion", "found", "significant", "important", "demonstrate", "show",
     "indicate", "suggest", "recommend", "key", "main", "primary", "critical", "essential"}

\* Whether the word occurs in x when the case of x's letters is ignored.
OccursIgnoringCase(word, x) ==
    \E i \in 1..(Len(x) - Len(word) + 1) :
        \A k \in 1..Len(word) :
            \/ Ch(x, i + k - 1) = Ch(word, k)
            \/ /\ Ch(x, i + k - 1) \in Upper
               /\ \E u \in 1..26 : Ch(x, i + k - 1) = Ch(UpperLetters, u)
                                       /\ Ch(word, k) = Ch(LowerLetters, u)

ExpectedScore(x) ==
      (IF \E i \in 1..Len(x) : Ch(x, i) \in Digits THEN 2 ELSE 0)
    + (IF \E i \in 1..Len(x) : Ch(x, i) = "'" \/ Ch(x, i) = "\"" THEN 1 ELSE 0)
    + Cardinality({w \in Keywords : OccursIgnoringCase(w, x)})
    + (IF Len(x) \in 51..199 THEN 1 ELSE 0)

\* C14: the score of a candidate is 2 for a digit, plus 1 for a single or double
\* quote, plus 1 for each of the 15 keywords that occurs in the lower-cased
\* sentence (once per keyword), plus 1 for a length strictly between 50 and
\* 200; the scored candidates are the first 50, in document order, of the
\* pieces whose trimmed length is above 20, and only they are returned.
C14_ScoreOfCandidate ==
    pc = "done" =>
        LET pieces == re_split("sentence", text)
            trimmed == [k \in 1..Len(pieces) |-> strip(pieces[k])]
            long == SelectSeq(trimmed, LAMBDA x : Len(x) > 20)
            n == IF Len(long) < 50 THEN Len(long) ELSE 50
        IN /\ Cardinality(Keywords) = 15
           /\ Len(scored_sentences) = n
           /\ \A k \in 1..n :
                  /\ scored_sentences[k].sentence = long[k]
                  /\ scored_sentences[k].score = ExpectedScore(long[k])
           /\ \A k \in 1..Len(top_sentences) :
                  \E j \in 1..n : top_sentences[k] = long[j]

C14_Witness ==
    /\ pc = "done"
    /\ Len(scored_sentences) = 6
    /\ [k \in 1..6 |-> scored_sentences[k].score] = <<1, 0, 1, 1, 0, 2>>
    /\ top_sentences = <<scored_sentences[6].sentence, scored_sentences[1].sentence>>

\* More than 50 candidates: the 51st is not scored.
C14_WitnessFirstFifty ==
    /\ pc = "done"
    /\ text = ManySentences
    /\ Len(scored_sentences) = 50
    /\ top_sentences = <<>>

(***************************************************************************)
(* The typographic rule of the heading heuristic.                          *)
(***************************************************************************)
\* The number of whitespace-delimited words of x: the places where a word ends.
WordsIn(x) ==
    Cardinality({i \in 1..Len(x) :
                    Ch(x, i) \notin Whitespace /\ (i = Len(x) \/ Ch(x, i + 1) \in Whitespace)})

UppercaseIn(x) == Cardinality({i \in 1..Len(x) : Ch(x, i) \in Upper})

\* C15: for every string of at most 200 characters that matches none of the five
\* heading patterns, _is_likely_heading returns true exactly when the string
\* has at most 10 whitespace-delimited words and its uppercase characters are
\* strictly more than 0.6 of its characters; a ratio of exactly 0.6 gives
\* false, and more than 10 words give false whatever the ratio.
C15_UppercaseRule ==
    pc = "done" /\ Len(text) <= 200 /\ ~MatchesHeadingPattern(strip(text)) =>
        /\ is_heading.raises = "none"
        /\ is_heading.value <=>
               /\ WordsIn(text) <= 10
               /\ Len(text) > 0
               /\ 10 * UppercaseIn(text) > 6 * Len(text)
        /\ (Len(text) > 0 /\ 10 * UppercaseIn(text) = 6 * Len(text) => ~is_heading.value)
        /\ (WordsIn(text) > 10 => ~is_heading.value)

C15_Witness ==
    /\ pc = "done"
    /\ text = "ABCde"
    /\ ~MatchesHeadingPattern(text)
    /\ ~is_heading.value

\* Eleven words, mostly uppercase, no pattern: not a heading.
C15_WitnessManyWords ==
    /\ pc = "done"
    /\ text = "aB CD EF GH IJ KL MN OP QR ST UV"
    /\ 10 * UppercaseIn(text) > 6 * Len(text)
    /\ ~MatchesHeadingPattern(text)
    /\ ~is_heading.value

\* Ten words, mostly uppercase, no pattern: a heading.
C15_WitnessTenWords ==
    /\ pc = "done"
    /\ text = "aB CD EF GH IJ KL MN OP QR ST"
    /\ ~MatchesHeadingPattern(text)
    /\ is_heading.value

(***************************************************************************)
(* The analyzer (src/claude_analyzer.py): a ClaudePDFAnalyzer and the      *)
(* operations called on it, directly or by a command of interactive_mode.  *)
(* The preset prompts are shortened to their first sentence.  A file is a  *)
(* record [name, exists, content]; the answer of the API is an APIError or *)
(* a response [usage, content].                                            *)
(***************************************************************************)
PRESET_PROMPTS ==
    [generic |-> "You are an expert document analyzer.",
     research |-> "You are a senior research analyst and peer reviewer.",
     legal |-> "You are a senior legal analyst.",
     business |-> "You are a strategic business consultant.",
     technical |-> "You are a senior software architect and technical lead.",
     medical |-> "You are a medical research analyst."]

None == [none |-> TRUE, value |-> ""]

Some(v) == [none |-> FALSE, value |-> v]

\* A usage field of the response that is null.
Null == [none |-> TRUE, value |-> 0]

\* not self.document_context: None or the empty string
NoContext(context) == context.none \/ context.value = ""

\* set_mode(mode) on an analyzer with the given prompt and mode.
set_mode(mode, prompt, current) ==
    IF mode \notin DOMAIN PRESET_PROMPTS
    THEN [raises |-> "ValueError", system_prompt |-> prompt, current_mode |-> current]
    ELSE [raises |-> "none", system_prompt |-> PRESET_PROMPTS[mode], current_mode |-> mode]

\* The user message of ask(question, section_files): a section file that does
\* not exist is left out with a warning.
UserContent(question, section_files) ==
    LET found == SelectSeq(section_files, LAMBDA f : f.exists)
        sections_content ==
            [k \in 1..Len(found) |->
                "\n\n--- Content from " \o found[k].name \o " ---\n\n" \o found[k].content]
    IN IF sections_content # <<>>
       THEN question \o "\n\n" \o join("\n", sections_content)
       ELSE question

UserMessage(content) == [role |-> "user", content |-> content]

AssistantMessage(content) == [role |-> "assistant", content |-> content]

\* except anthropic.APIError: self.conversation_history.pop()
HistoryAfterApiErrorKept(history) == history

HistoryAfterApiError(history) == SubSeq(history, 1, Len(history) - 1)

\* The outcome of the try block of ask for a response: the counters, the
\* history and the exception that leaves the block.  A usage field the
\* response lacks is no field of the record; one that is null is Null.
AfterResponse(response, history, counters) ==
    LET usage == response.usage
        one == [counters EXCEPT !.total_input_tokens = @ + usage.input_tokens,
                                !.total_output_tokens = @ + usage.output_tokens]
        creation_fails == /\ "cache_creation_input_tokens" \in DOMAIN usage
                          /\ usage.cache_creation_input_tokens.none
        two == IF "cache_creation_input_tokens" \in DOMAIN usage /\ ~creation_fails
               THEN [one EXCEPT !.cache_creation_tokens =
                                    @ + usage.cache_creation_input_tokens.value]
               ELSE one
        read_fails == /\ "cache_read_input_tokens" \in DOMAIN usage
                      /\ usage.cache_read_input_tokens.none
        three == IF "cache_read_input_tokens" \in DOMAIN usage /\ ~read_fails
                 THEN [two EXCEPT !.cache_read_tokens =
                                      @ + usage.cache_read_input_tokens.value]
                 ELSE two
    IN IF creation_fails
       THEN [raises |-> "TypeError", history |-> history, counters |-> one]
       ELSE IF read_fails
       THEN [raises |-> "TypeError", history |-> history, counters |-> two]
       ELSE IF response.content = <<>>
       THEN [raises |-> "IndexError", history |-> history, counters |-> three]
       ELSE IF "text" \notin DOMAIN response.content[1]
       THEN [raises |-> "AttributeError", history |-> history, counters |-> three]
       ELSE [raises |-> "none",
             history |-> Append(history, AssistantMessage(response.content[1].text)),
             counters |-> three]

Counters ==
    [total_input_tokens |-> total_input_tokens,
     total_output_tokens |-> total_output_tokens,
     cache_creation_tokens |-> cache_creation_tokens,
     cache_read_tokens |-> cache_read_tokens]

\* get_usage_stats()['messages_sent']
messages_sent == Len(conversation_history) \div 2

(***************************************************************************)
(* What the analyzer is called with.                                       *)
(***************************************************************************)
ContextFiles ==
    {[name |-> "none.md", exists |-> FALSE, content |-> ""],
     [name |-> "empty.md", exists |-> TRUE, content |-> ""],
     [name |-> "00_CLAUDE_CONTEXT.md", exists |-> TRUE, content |-> "# Document Context"]}

SectionFileLists ==
    {<<>>,
     <<[name |-> "09_gone.txt", exists |-> FALSE, content |-> ""]>>,
     <<[name |-> "01_Intro.txt", exists |-> TRUE, content |-> "Title: Intro"]>>}

Questions == {"What is it about?"}

ModeNames == {"generic", "legal", "bogus"}

Prompts == {"Be brief."}

Usage == [input_tokens |-> 3, output_tokens |-> 2]

CachedUsage ==
    [input_tokens |-> 3, output_tokens |-> 2,
     cache_creation_input_tokens |-> Some(5), cache_read_input_tokens |-> Some(7)]

NullCacheUsage ==
    [input_tokens |-> 3, output_tokens |-> 2,
     cache_creation_input_tokens |-> Some(5), cache_read_input_tokens |-> Null]

ApiOutcomes ==
    {[kind |-> "APIError"],
     [kind |-> "response", usage |-> Usage, content |-> <<[text |-> "It is about X."]>>],
     [kind |-> "response", usage |-> CachedUsage,
      content |-> <<[text |-> "It is about X."]>>],
     [kind |-> "response", usage |-> NullCacheUsage,
      content |-> <<[text |-> "It is about X."]>>],
     [kind |-> "response", usage |-> Usage, content |-> <<>>],
     [kind |-> "response", usage |-> Usage, content |-> <<[type |-> "tool_use"]>>]}

splitter_vars == <<reader_outline, pages_text, total_pages, toc, sections, page_reads,
                   fallback, text, max_sentences, is_heading, top_sentences, pc,
                   scored_sentences, summary_parts, summary>>

NoSplitter ==
    /\ reader_outline = [raises |-> FALSE, items |-> <<>>]
    /\ total_pages = 0
    /\ pages_text = <<>>
    /\ toc = <<>>
    /\ sections = <<>>
    /\ page_reads = <<>>
    /\ fallback = FALSE
    /\ pc = "start"
    /\ summary_parts = <<>>
    /\ summary = ""
    /\ Idle

\* ClaudePDFAnalyzer(api_key, mode) or ClaudePDFAnalyzer(api_key, custom_prompt=...),
\* when the constructor returns.
InitAnalyzer ==
    /\ document_context = None
    /\ conversation_history = <<>>
    /\ total_input_tokens = 0
    /\ total_output_tokens = 0
    /\ cache_creation_tokens = 0
    /\ cache_read_tokens = 0
    /\ \/ \E mode \in ModeNames \cap DOMAIN PRESET_PROMPTS :
              /\ system_prompt = set_mode(mode, "", "").system_prompt
              /\ current_mode = set_mode(mode, "", "").current_mode
       \/ \E prompt \in Prompts :
              /\ system_prompt = prompt
              /\ current_mode = "custom"
    /\ called = [op |-> "__init__", arg |-> ""]
    /\ raised = "none"
    /\ api_calls = 0
    /\ successful_asks = 0
    /\ context_loaded = FALSE
    /\ NoSplitter

counter_vars == <<total_input_tokens, total_output_tokens, cache_creation_tokens,
                  cache_read_tokens>>

SetMode(mode) ==
    LET result == set_mode(mode, system_prompt, current_mode)
    IN /\ called' = [op |-> "set_mode", arg |-> mode]
       /\ raised' = result.raises
       /\ system_prompt' = result.system_prompt
       /\ current_mode' = result.current_mode
       /\ UNCHANGED <<document_context, conversation_history, counter_vars, api_calls,
                      successful_asks, context_loaded, splitter_vars>>

SetCustomPrompt(prompt) ==
    /\ called' = [op |-> "set_custom_prompt", arg |-> prompt]
    /\ raised' = "none"
    /\ system_prompt' = prompt
    /\ current_mode' = "custom"
    /\ UNCHANGED <<document_context, conversation_history, counter_vars, api_calls,
                   successful_asks, context_loaded, splitter_vars>>

LoadContext(file) ==
    /\ called' = [op |-> "load_context", arg |-> file.name]
    /\ IF ~file.exists
       THEN /\ raised' = "FileNotFoundError"
            /\ UNCHANGED <<document_context, context_loaded>>
       ELSE /\ raised' = "none"
            /\ document_context' = Some(file.content)
            /\ context_loaded' = TRUE
    /\ UNCHANGED <<conversation_history, counter_vars, system_prompt, current_mode,
                   api_calls, successful_asks, splitter_vars>>

\* ask(question, section_files) without a context: ValueError.
AskWithoutContext(question, section_files) ==
    /\ NoContext(document_context)
    /\ called' = [op |-> "ask", arg |-> question]
    /\ raised' = "ValueError"
    /\ UNCHANGED <<document_context, conversation_history, counter_vars, system_prompt,
                   current_mode, api_calls, successful_asks, context_loaded, splitter_vars>>

\* ask(question, section_files) with a context: the API is called and answers
\* with `outcome`.
AskWithContext(question, section_files, outcome) ==
    /\ ~NoContext(document_context)
    /\ api_calls < MaxCalls
    /\ Len(conversation_history) < MaxMessages
    /\ called' = [op |-> "ask", arg |-> question]
    /\ api_calls' = api_calls + 1
    /\ LET sent == Append(conversation_history,
                          UserMessage(UserContent(question, section_files)))
       IN IF outcome.kind = "APIError"
          THEN /\ conversation_history' = HistoryAfterApiError(sent)
               /\ raised' = "APIError"
               /\ UNCHANGED <<counter_vars, successful_asks>>
          ELSE LET after == AfterResponse(outcome, sent, Counters)
               IN /\ conversation_history' = after.history
                  /\ raised' = after.raises
                  /\ total_input_tokens' = after.counters.total_input_tokens
                  /\ total_output_tokens' = after.counters.total_output_tokens
                  /\ cache_creation_tokens' = after.counters.cache_creation_tokens
                  /\ cache_read_tokens' = after.counters.cache_read_tokens
                  /\ successful_asks' = IF after.raises = "none" THEN successful_asks + 1
                                        ELSE successful_asks
    /\ UNCHANGED <<document_context, system_prompt, current_mode, context_loaded,
                   splitter_vars>>

Ask(question, section_files, outcome) ==
    \/ AskWithoutContext(question, section_files)
    \/ AskWithContext(question, section_files, outcome)

ResetConversation ==
    /\ called' = [op |-> "reset_conversation", arg |-> ""]
    /\ raised' = "none"
    /\ conversation_history' = <<>>
    /\ successful_asks' = 0
    /\ UNCHANGED <<document_context, counter_vars, system_prompt, current_mode, api_calls,
                   context_loaded, splitter_vars>>

\* The command "mode <args>" of interactive_mode: with no name nothing is
\* called; otherwise the history is emptied and set_mode(args) is called, whose
\* ValueError the command catches and prints.
ModeCommand(args) ==
    LET result == set_mode(args, system_prompt, current_mode)
    IN /\ called' = [op |-> "mode", arg |-> args]
       /\ IF args = ""
          THEN /\ raised' = "none"
               /\ UNCHANGED <<conversation_history, successful_asks, system_prompt,
                              current_mode>>
          ELSE /\ conversation_history' = <<>>
               /\ successful_asks' = 0
               /\ raised' = result.raises
               /\ system_prompt' = result.system_prompt
               /\ current_mode' = result.current_mode
       /\ UNCHANGED <<document_context, counter_vars, api_calls, context_loaded,
                      splitter_vars>>

\* The command "prompt <args>" of interactive_mode.
PromptCommand(args) ==
    /\ called' = [op |-> "prompt", arg |-> args]
    /\ raised' = "none"
    /\ IF args = ""
       THEN UNCHANGED <<conversation_history, successful_asks, system_prompt, current_mode>>
       ELSE /\ conversation_history' = <<>>
            /\ successful_asks' = 0
            /\ system_prompt' = args
            /\ current_mode' = "custom"
    /\ UNCHANGED <<document_context, counter_vars, api_calls, context_loaded,
                   splitter_vars>>

NextAnalyzer ==
    \/ \E mode \in ModeNames : SetMode(mode)
    \/ \E prompt \in Prompts : SetCustomPrompt(prompt)
    \/ \E file \in ContextFiles : LoadContext(file)
    \/ \E question \in Questions, section_files \in SectionFileLists,
          outcome \in ApiOutcomes : Ask(question, section_files, outcome)
    \/ ResetConversation
    \/ \E args \in ModeNames \cup {""} : ModeCommand(args)
    \/ \E args \in Prompts \cup {""} : PromptCommand(args)

SpecAnalyzer == InitAnalyzer /\ [][NextAnalyzer]_vars

(***************************************************************************)
(* The claims about the analyzer.                                          *)
(***************************************************************************)
IsUser(message) == message.role = "user"

IsAssistant(message) == message.role = "assistant"

\* C16: an ask whose API call fails with an API error raises that error and
\* leaves conversation_history and the four token counters as they were
\* before the ask; an ask that returns appends exactly one user message
\* and then one assistant message.
C16_ApiErrorRollsBack ==
    [][api_calls' = api_calls + 1 =>
          /\ raised' = "APIError" =>
                 /\ conversation_history' = conversation_history
                 /\ UNCHANGED counter_vars
          /\ raised' = "none" =>
                 /\ Len(conversation_history') = Len(conversation_history) + 2
                 /\ SubSeq(conversation_history', 1, Len(conversation_history))
                        = conversation_history
                 /\ IsUser(conversation_history'[Len(conversation_history) + 1])
                 /\ IsAssistant(conversation_history'[Len(conversation_history) + 2])]_vars

\* An ask failed with an API error after an earlier ask had succeeded.
C16_Witness ==
    /\ called.op = "ask"
    /\ raised = "APIError"
    /\ Len(conversation_history) = 2
    /\ total_input_tokens > 0
    /\ api_calls = 2

\* An ask has returned.
C16_WitnessSuccess ==
    /\ called.op = "ask"
    /\ raised = "none"
    /\ Len(conversation_history) = 2

\* C17 (second half): once load_context has succeeded, ask does not raise
\* the ValueError of a missing context.
C17_NoValueErrorOnceLoaded ==
    (called.op = "ask" /\ context_loaded) => raised # "ValueError"

\* C17 (first half): an ask before any successful load_context raises
\* ValueError, calls no API and changes neither the history nor the counters.
C17_AskBeforeLoad ==
    [][(called'.op = "ask" /\ ~context_loaded) =>
          /\ raised' = "ValueError"
          /\ api_calls' = api_calls
          /\ UNCHANGED <<conversation_history, counter_vars>>]_vars

\* load_context has read an empty file and the ask after it raised ValueError.
C17_Witness ==
    /\ called.op = "ask"
    /\ context_loaded
    /\ document_context = Some("")
    /\ raised = "ValueError"

\* C18: whatever the asks did, conversation_history has even length and
\* alternates user, assistant from a user message on, and messages_sent is the
\* number of asks that have returned since the history was last emptied.
C18_HistoryAlternates ==
    /\ Len(conversation_history) % 2 = 0
    /\ \A k \in 1..Len(conversation_history) :
           IF k % 2 = 1 THEN IsUser(conversation_history[k])
           ELSE IsAssistant(conversation_history[k])
    /\ messages_sent = successful_asks

\* An ask got a response with no content block: its user message is the last
\* of the history.
C18_Witness ==
    /\ called.op = "ask"
    /\ raised = "IndexError"
    /\ Len(conversation_history) % 2 = 1
    /\ IsUser(conversation_history[Len(conversation_history)])

\* C19: the command "mode <name>" with a name that is no preset mode leaves
\* system_prompt, current_mode and conversation_history unchanged; with
\* a preset name it sets the prompt and the mode of that name and empties the
\* history.
C19_ModeResetsOnSuccess ==
    [][(called'.op = "mode" /\ called'.arg # "") =>
          IF called'.arg \notin DOMAIN PRESET_PROMPTS
          THEN /\ raised' = "ValueError"
               /\ UNCHANGED <<system_prompt, current_mode, conversation_history>>
          ELSE /\ system_prompt' = PRESET_PROMPTS[called'.arg]
               /\ current_mode' = called'.arg
               /\ conversation_history' = <<>>]_vars

\* "mode bogus" was entered after an ask had returned, and the history is
\* empty.
C19_Witness ==
    /\ called.op = "mode"
    /\ called.arg \notin DOMAIN PRESET_PROMPTS \cup {""}
    /\ raised = "ValueError"
    /\ successful_asks = 0
    /\ api_calls > 0
    /\ conversation_history = <<>>
    /\ total_output_tokens > 0

=============================================================================
